---- MODULE Spec2Model ----
(***************************************************************************)
(* Model of backend/library_browser.py: the LibraryBrowser catalog scan,   *)
(* the paginated query, the subtitle association, the paired rename and    *)
(* the file-info lookup, over a filesystem of regular files.               *)
(*                                                                         *)
(* A path is a sequence of one-character strings, so that dirname,         *)
(* basename, splitext, join, relpath and lower() are computed on the       *)
(* characters exactly as os.path and str do.                               *)
(***************************************************************************)
EXTENDS Integers, Sequences, FiniteSets, TLC

\* ------------------------------------------------------------------ bounds
\* Largest number of files in the initial library.
MaxFiles == 3
\* File sizes of the initial library are drawn from 0..MaxSize.
MaxSize == 1
\* Modification times of the initial library are drawn from 0..MaxMtime.
MaxMtime == 0
\* Requested pages are drawn from -1..MaxPage.
MaxPage == 3
\* Requested page sizes are drawn from -1..MaxPerPage.
MaxPerPage == 2

\* ------------------------------------------------------- strings and paths
Sep == "/"
Dot == "."

\* The characters the model's strings are made of, in code-point order.
CodePoints == <<".", "/", "4", "K", "M", "S", "V", "a", "b", "k", "l", "m", "n",
                "p", "r", "s", "t", "v", "x">>

\* ord(c): the position of c in code-point order.
Ord(c) == CHOOSE i \in 1..Len(CodePoints) : CodePoints[i] = c

\* str.lower() on one character.
LowerChar(c) ==
    CASE c = "K" -> "k"
      [] c = "M" -> "m"
      [] c = "S" -> "s"
      [] c = "V" -> "v"
      [] OTHER -> c

\* str.lower()
Lower(s) == [i \in 1..Len(s) |-> LowerChar(s[i])]

\* str.rfind(c), 1-based; 0 when c does not occur.
RFind(s, c) ==
    IF \E i \in 1..Len(s) : s[i] = c
    THEN CHOOSE i \in 1..Len(s) : s[i] = c /\ \A j \in (i+1)..Len(s) : s[j] # c
    ELSE 0

\* `needle in hay` on strings: needle is a contiguous substring of hay.
Contains(hay, needle) ==
    \E i \in 0..(Len(hay) - Len(needle)) :
        \A k \in 1..Len(needle) : hay[i + k] = needle[k]

\* s < t in Python's string order (lexicographic on code points).
RECURSIVE StrLess(_, _)
StrLess(s, t) ==
    IF t = <<>> THEN FALSE
    ELSE IF s = <<>> THEN TRUE
    ELSE IF Ord(Head(s)) # Ord(Head(t)) THEN Ord(Head(s)) < Ord(Head(t))
    ELSE StrLess(Tail(s), Tail(t))

\* os.path.dirname
dirname(p) ==
    LET i == RFind(p, Sep) IN
    IF i = 0 THEN <<>>
    ELSE IF i = 1 THEN <<Sep>>
    ELSE SubSeq(p, 1, i - 1)

\* os.path.basename
basename(p) == SubSeq(p, RFind(p, Sep) + 1, Len(p))

\* os.path.splitext: <<root, ext>>; the extension starts at the last dot of
\* the last component, unless only dots precede that dot in the component.
splitext(p) ==
    LET sepIndex == RFind(p, Sep)
        dotIndex == RFind(p, Dot)
    IN  IF dotIndex > sepIndex
           /\ \E k \in (sepIndex + 1)..(dotIndex - 1) : p[k] # Dot
        THEN <<SubSeq(p, 1, dotIndex - 1), SubSeq(p, dotIndex, Len(p))>>
        ELSE <<p, <<>>>>

\* os.path.join of two components.
join(a, b) ==
    IF b # <<>> /\ Head(b) = Sep THEN b
    ELSE IF a = <<>> \/ a[Len(a)] = Sep THEN a \o b
    ELSE a \o <<Sep>> \o b

\* p starts with prefix q.
StartsWith(p, q) == Len(p) >= Len(q) /\ SubSeq(p, 1, Len(q)) = q

\* os.path.relpath(path, start) for a start directory of one component
\* directly under the working directory and a path below the working
\* directory: the part below start, or "../" and the path when it lies
\* outside start.
relpath(path, start) ==
    IF StartsWith(path, start \o <<Sep>>)
    THEN SubSeq(path, Len(start) + 2, Len(path))
    ELSE <<Dot, Dot, Sep>> \o path

\* ------------------------------------------------- LibraryBrowser constants
video_extensions ==
    { <<".", "m", "p", "4">>, <<".", "m", "k", "v">>, <<".", "a", "v", "i">>,
      <<".", "m", "o", "v">>, <<".", "w", "m", "v">>, <<".", "f", "l", "v">>,
      <<".", "w", "e", "b", "m">>, <<".", "m", "4", "v">>,
      <<".", "m", "p", "g">>, <<".", "m", "p", "e", "g">> }

subtitle_extensions ==
    { <<".", "s", "r", "t">>, <<".", "s", "u", "b">>, <<".", "v", "t", "t">>,
      <<".", "a", "s", "s">>, <<".", "s", "s", "a">> }

supported_extensions ==
    video_extensions \cup subtitle_extensions \cup
    { <<".", "m", "p", "3">>, <<".", "f", "l", "a", "c">>,
      <<".", "w", "a", "v">>, <<".", "a", "a", "c">>, <<".", "m", "4", "a">>,
      <<".", "p", "d", "f">>, <<".", "e", "p", "u", "b">>,
      <<".", "m", "o", "b", "i">> }

\* Iteration orders of the subtitle_extensions set: a Python set of strings
\* iterates in an order that depends on the string hash seed; a lookup meets
\* the extensions in any of these orders.
SubtitleOrders ==
    { << <<".", "s", "r", "t">>, <<".", "s", "u", "b">>, <<".", "v", "t", "t">>,
         <<".", "a", "s", "s">>, <<".", "s", "s", "a">> >>,
      << <<".", "s", "s", "a">>, <<".", "a", "s", "s">>, <<".", "v", "t", "t">>,
         <<".", "s", "u", "b">>, <<".", "s", "r", "t">> >> }

\* ------------------------------------------------------------- filesystem
\* The library root the browser is constructed with, a subdirectory of it,
\* and a directory that does not exist.
LibraryRoot == <<"l">>
SubDir == <<"l", "/", "s">>
MissingRoot == <<"n">>

\* The directories that exist; the model's operations only move files.
Directories == {LibraryRoot, SubDir}

\* The files the initial library is drawn from.
InitPaths ==
    { join(LibraryRoot, <<"a", ".", "m", "p", "4">>),
      join(LibraryRoot, <<"a", ".", "s", "r", "t">>),
      join(LibraryRoot, <<"a", ".", "v", "t", "t">>),
      join(LibraryRoot, <<"b", ".", "M", "K", "V">>),
      join(LibraryRoot, <<"b", ".", "s", "r", "t">>),
      join(LibraryRoot, <<"b", ".", "m", "p", "4">>),
      join(LibraryRoot, <<"a", ".", "t", "x", "t">>),
      join(SubDir, <<"a", ".", "s", "r", "t">>) }

\* New names a rename is asked for: they keep the stem, change it, or carry
\* an extension of their own.
NewNames ==
    { <<"a">>, <<"b">>, <<"b", ".", "s", "r", "t">> }

\* os.path.exists: a regular file or a directory is at p.
exists(files, p) == p \in DOMAIN files \/ p \in Directories

\* The files after os.rename(src, dst) has completed: the file at src is at
\* dst, where it silently replaces a file that was there (POSIX); renaming a
\* file to itself changes nothing.
os_rename(files, src, dst) ==
    IF src = dst THEN files
    ELSE [p \in (DOMAIN files \ {src}) \cup {dst} |->
            IF p = dst THEN files[src] ELSE files[p]]

\* os.rename(src, dst) can complete: src is a file, and the operating system
\* does not refuse (refused: permissions, or a platform on which an
\* existing destination is an error).
can_rename(files, src, dst, refused) ==
    src \in DOMAIN files /\ dst \notin Directories /\ ~refused

\* --------------------------------------------------------------- variables
Callers == {1, 2}

VARIABLES
    fs,            \* the regular files: path -> [ino, size, modified]
    library_path,  \* LibraryBrowser.library_path
    pc,            \* per caller: position inside rename_file
    arg,           \* per caller: rename_file's arguments
    loc,           \* per caller: rename_file's locals
    result,        \* per caller: rename_file's result dictionary
    fs0,           \* per caller: the files when its rename_file call began
    oslog,         \* per caller: the os.rename calls of this call, each with
                   \* whether it completed (ok) or raised
    out            \* what the last query / file-info call returned

vars == <<fs, library_path, pc, arg, loc, result, fs0, oslog, out>>

NoArg == [old_path |-> <<>>, new_name |-> <<>>, rename_subtitle |-> FALSE]
NoLoc == [old_dir |-> <<>>, old_ext |-> <<>>, new_base |-> <<>>,
          new_filename |-> <<>>, new_path |-> <<>>, subtitle_path |-> <<>>,
          new_subtitle_path |-> <<>>]
NoResult == [success |-> FALSE, message |-> <<>>, renamed_files |-> <<>>]
NoFiles == [p \in {} |-> 0]
NoOut == [op |-> "none"]

\* The libraries of at most MaxFiles files out of paths, each file with a
\* size in 0..max_size and a modification time in 0..max_mtime.
Libraries(paths, max_size, max_mtime) ==
    UNION { UNION { { [p \in S |-> [ino |-> p, size |-> sz[p], modified |-> mt[p]]]
                      : mt \in [S -> 0..max_mtime] }
                    : sz \in [S -> 0..max_size] }
            : S \in { T \in SUBSET paths : Cardinality(T) <= MaxFiles } }

\* After construction on a library of empty files: no call in progress.
Init ==
    /\ fs \in Libraries(InitPaths, 0, 0)
    /\ library_path = LibraryRoot
    /\ pc = [t \in Callers |-> "idle"]
    /\ arg = [t \in Callers |-> NoArg]
    /\ loc = [t \in Callers |-> NoLoc]
    /\ result = [t \in Callers |-> NoResult]
    /\ fs0 = [t \in Callers |-> NoFiles]
    /\ oslog = [t \in Callers |-> <<>>]
    /\ out = NoOut

\* ------------------------------------------------------------------ rename
\* find_related_subtitle: the first extension, in iteration order, for which
\* directory/stem.ext exists; <<>> is None.
RECURSIVE FirstExisting(_, _, _, _)
FirstExisting(files, video_dir, video_base, exts) ==
    IF exts = <<>> THEN <<>>
    ELSE LET subtitle_path == join(video_dir, video_base \o Head(exts)) IN
         IF exists(files, subtitle_path) THEN subtitle_path
         ELSE FirstExisting(files, video_dir, video_base, Tail(exts))

find_related_subtitle(files, order, video_path) ==
    LET video_dir == dirname(video_path)
        video_base == splitext(basename(video_path))[1]
    IN  FirstExisting(files, video_dir, video_base, order)

\* The paths rename_file is called on: every file of the library and one
\* path at which there is nothing.
OldPaths == DOMAIN fs \cup {join(LibraryRoot, <<"x", ".", "m", "p", "4">>)}

\* rename_file is entered (lines 144-148): the result starts as a failure
\* with no renamed files.
rename_call(t, old_path, new_name, rename_subtitle) ==
    /\ pc[t] = "idle"
    /\ pc' = [pc EXCEPT ![t] = "check_old"]
    /\ arg' = [arg EXCEPT ![t] = [old_path |-> old_path, new_name |-> new_name,
                                  rename_subtitle |-> rename_subtitle]]
    /\ result' = [result EXCEPT ![t] = NoResult]
    /\ fs0' = [fs0 EXCEPT ![t] = fs]
    /\ oslog' = [oslog EXCEPT ![t] = <<>>]
    /\ UNCHANGED <<fs, library_path, loc, out>>

\* Lines 151-162: the source must exist; the destination keeps the source's
\* directory and extension and takes the stem of new_name.
rename_check_old(t) ==
    /\ pc[t] = "check_old"
    /\ IF ~exists(fs, arg[t].old_path)
       THEN /\ result' = [result EXCEPT ![t].message =
                              <<"File not found", arg[t].old_path>>]
            /\ pc' = [pc EXCEPT ![t] = "return"]
            /\ UNCHANGED loc
       ELSE LET old_dir == dirname(arg[t].old_path)
                old_filename == basename(arg[t].old_path)
                old_ext == splitext(old_filename)[2]
                new_base == splitext(arg[t].new_name)[1]
                new_filename == new_base \o old_ext
            IN  /\ loc' = [loc EXCEPT ![t] =
                             [NoLoc EXCEPT !.old_dir = old_dir,
                                           !.old_ext = old_ext,
                                           !.new_base = new_base,
                                           !.new_filename = new_filename,
                                           !.new_path = join(old_dir, new_filename)]]
                /\ pc' = [pc EXCEPT ![t] = "check_new"]
                /\ UNCHANGED result
    /\ UNCHANGED <<fs, library_path, arg, fs0, oslog, out>>

\* Mutant of rename_check_new: the destination is not looked at.
rename_check_new_unchecked(t) ==
    /\ pc[t] = "check_new"
    /\ pc' = [pc EXCEPT ![t] = "rename_main"]
    /\ UNCHANGED <<fs, library_path, arg, loc, result, fs0, oslog, out>>

\* Lines 165-167: a different file at the destination fails the call.
rename_check_new(t) ==
    /\ pc[t] = "check_new"
    /\ IF exists(fs, loc[t].new_path) /\ loc[t].new_path # arg[t].old_path
       THEN /\ result' = [result EXCEPT ![t].message =
                              <<"Destination file already exists",
                                loc[t].new_filename>>]
            /\ pc' = [pc EXCEPT ![t] = "return"]
       ELSE /\ pc' = [pc EXCEPT ![t] = "rename_main"]
            /\ UNCHANGED result
    /\ UNCHANGED <<fs, library_path, arg, loc, fs0, oslog, out>>

\* One os.rename call as the filesystem saw it.
Attempt(src, dst, ok) == [src |-> src, dst |-> dst, ok |-> ok]

\* Lines 196-197: the call has succeeded.
Succeeded(res) ==
    [res EXCEPT !.success = TRUE,
                !.message = <<"Successfully renamed", Len(res.renamed_files)>>]

\* Mutant of rename_main: an os.rename that raises is tolerated like a failed
\* subtitle rename, and the call reports success.
rename_main_tolerant(t, refused) ==
    /\ pc[t] = "rename_main"
    /\ LET ok == can_rename(fs, arg[t].old_path, loc[t].new_path, refused)
           entry == [old |-> arg[t].old_path, new |-> loc[t].new_path,
                     type |-> "main"]
           res == IF ok THEN [result[t] EXCEPT !.renamed_files = Append(@, entry)]
                  ELSE result[t]
       IN  /\ fs' = IF ok THEN os_rename(fs, arg[t].old_path, loc[t].new_path)
                    ELSE fs
           /\ oslog' = [oslog EXCEPT ![t] =
                          Append(@, Attempt(entry.old, entry.new, ok))]
           /\ IF ok /\ arg[t].rename_subtitle
                 /\ Lower(loc[t].old_ext) \in video_extensions
              THEN /\ result' = [result EXCEPT ![t] = res]
                   /\ pc' = [pc EXCEPT ![t] = "find_subtitle"]
              ELSE /\ result' = [result EXCEPT ![t] = Succeeded(res)]
                   /\ pc' = [pc EXCEPT ![t] = "return"]
    /\ UNCHANGED <<library_path, arg, loc, fs0, out>>

\* Lines 170-179 and 199-201: the primary rename. When os.rename raises, the
\* outer handler reports the error; when it completes, the main entry is
\* recorded and the call goes on to the subtitle of a video, or succeeds.
rename_main(t, refused) ==
    /\ pc[t] = "rename_main"
    /\ IF can_rename(fs, arg[t].old_path, loc[t].new_path, refused)
       THEN LET entry == [old |-> arg[t].old_path, new |-> loc[t].new_path,
                          type |-> "main"]
                res == [result[t] EXCEPT !.renamed_files = Append(@, entry)]
            IN  /\ fs' = os_rename(fs, arg[t].old_path, loc[t].new_path)
                /\ oslog' = [oslog EXCEPT ![t] =
                               Append(@, Attempt(entry.old, entry.new, TRUE))]
                /\ IF arg[t].rename_subtitle
                      /\ Lower(loc[t].old_ext) \in video_extensions
                   THEN /\ result' = [result EXCEPT ![t] = res]
                        /\ pc' = [pc EXCEPT ![t] = "find_subtitle"]
                   ELSE /\ result' = [result EXCEPT ![t] = Succeeded(res)]
                        /\ pc' = [pc EXCEPT ![t] = "return"]
       ELSE /\ result' = [result EXCEPT ![t].message = <<"Error", "OSError">>]
            /\ pc' = [pc EXCEPT ![t] = "return"]
            /\ oslog' = [oslog EXCEPT ![t] =
                           Append(@, Attempt(arg[t].old_path, loc[t].new_path,
                                             FALSE))]
            /\ UNCHANGED fs
    /\ UNCHANGED <<library_path, arg, loc, fs0, out>>

\* Mutant of rename_find_subtitle: the companion is looked up from the path
\* the main file has been moved to.
rename_find_subtitle_new_path(t, order) ==
    /\ pc[t] = "find_subtitle"
    /\ LET subtitle_path == find_related_subtitle(fs, order, loc[t].new_path) IN
       IF subtitle_path # <<>>
       THEN LET subtitle_ext == splitext(subtitle_path)[2] IN
            /\ loc' = [loc EXCEPT ![t].subtitle_path = subtitle_path,
                                  ![t].new_subtitle_path =
                                      join(loc[t].old_dir,
                                           loc[t].new_base \o subtitle_ext)]
            /\ pc' = [pc EXCEPT ![t] = "rename_subtitle"]
            /\ UNCHANGED result
       ELSE /\ result' = [result EXCEPT ![t] = Succeeded(@)]
            /\ pc' = [pc EXCEPT ![t] = "return"]
            /\ UNCHANGED loc
    /\ UNCHANGED <<fs, library_path, arg, fs0, oslog, out>>

\* Mutant of rename_find_subtitle: the subtitle's new path takes the
\* video's extension instead of its own.
rename_find_subtitle_video_ext(t, order) ==
    /\ pc[t] = "find_subtitle"
    /\ LET subtitle_path == find_related_subtitle(fs, order, arg[t].old_path) IN
       IF subtitle_path # <<>>
       THEN /\ loc' = [loc EXCEPT ![t].subtitle_path = subtitle_path,
                                  ![t].new_subtitle_path =
                                      join(loc[t].old_dir,
                                           loc[t].new_base \o loc[t].old_ext)]
            /\ pc' = [pc EXCEPT ![t] = "rename_subtitle"]
            /\ UNCHANGED result
       ELSE /\ result' = [result EXCEPT ![t] = Succeeded(@)]
            /\ pc' = [pc EXCEPT ![t] = "return"]
            /\ UNCHANGED loc
    /\ UNCHANGED <<fs, library_path, arg, fs0, oslog, out>>

\* Lines 180-183: the companion subtitle is looked up from the old path.
rename_find_subtitle(t, order) ==
    /\ pc[t] = "find_subtitle"
    /\ LET subtitle_path == find_related_subtitle(fs, order, arg[t].old_path) IN
       IF subtitle_path # <<>>
       THEN LET subtitle_ext == splitext(subtitle_path)[2] IN
            /\ loc' = [loc EXCEPT ![t].subtitle_path = subtitle_path,
                                  ![t].new_subtitle_path =
                                      join(loc[t].old_dir,
                                           loc[t].new_base \o subtitle_ext)]
            /\ pc' = [pc EXCEPT ![t] = "rename_subtitle"]
            /\ UNCHANGED result
       ELSE /\ result' = [result EXCEPT ![t] = Succeeded(@)]
            /\ pc' = [pc EXCEPT ![t] = "return"]
            /\ UNCHANGED loc
    /\ UNCHANGED <<fs, library_path, arg, fs0, oslog, out>>

\* Mutant of rename_subtitle: without the inner handler, a failure of the
\* secondary rename reaches the outer handler and the call fails.
rename_subtitle_strict(t, refused) ==
    /\ pc[t] = "rename_subtitle"
    /\ IF can_rename(fs, loc[t].subtitle_path, loc[t].new_subtitle_path, refused)
       THEN LET entry == [old |-> loc[t].subtitle_path,
                          new |-> loc[t].new_subtitle_path,
                          type |-> "subtitle"]
            IN  /\ fs' = os_rename(fs, loc[t].subtitle_path,
                                   loc[t].new_subtitle_path)
                /\ oslog' = [oslog EXCEPT ![t] =
                               Append(@, Attempt(entry.old, entry.new, TRUE))]
                /\ result' = [result EXCEPT ![t] =
                                Succeeded([@ EXCEPT !.renamed_files =
                                                        Append(@, entry)])]
       ELSE /\ result' = [result EXCEPT ![t].message = <<"Error", "OSError">>]
            /\ oslog' = [oslog EXCEPT ![t] =
                           Append(@, Attempt(loc[t].subtitle_path,
                                             loc[t].new_subtitle_path, FALSE))]
            /\ UNCHANGED fs
    /\ pc' = [pc EXCEPT ![t] = "return"]
    /\ UNCHANGED <<library_path, arg, loc, fs0, out>>

\* Mutant of rename_subtitle: the subtitle entry is recorded before the
\* rename is tried, so it stays when the rename fails.
rename_subtitle_eager(t, refused) ==
    /\ pc[t] = "rename_subtitle"
    /\ LET entry == [old |-> loc[t].subtitle_path,
                     new |-> loc[t].new_subtitle_path,
                     type |-> "subtitle"]
           ok == can_rename(fs, loc[t].subtitle_path, loc[t].new_subtitle_path,
                            refused)
       IN  /\ fs' = IF ok THEN os_rename(fs, loc[t].subtitle_path,
                                         loc[t].new_subtitle_path)
                    ELSE fs
           /\ oslog' = [oslog EXCEPT ![t] =
                          Append(@, Attempt(entry.old, entry.new, ok))]
           /\ result' = [result EXCEPT ![t] =
                           Succeeded([@ EXCEPT !.renamed_files = Append(@, entry)])]
    /\ pc' = [pc EXCEPT ![t] = "return"]
    /\ UNCHANGED <<library_path, arg, loc, fs0, out>>

\* Lines 185-197: the secondary rename; a failure is logged and tolerated.
rename_subtitle(t, refused) ==
    /\ pc[t] = "rename_subtitle"
    /\ IF can_rename(fs, loc[t].subtitle_path, loc[t].new_subtitle_path, refused)
       THEN LET entry == [old |-> loc[t].subtitle_path,
                          new |-> loc[t].new_subtitle_path,
                          type |-> "subtitle"]
            IN  /\ fs' = os_rename(fs, loc[t].subtitle_path,
                                   loc[t].new_subtitle_path)
                /\ oslog' = [oslog EXCEPT ![t] =
                               Append(@, Attempt(entry.old, entry.new, TRUE))]
                /\ result' = [result EXCEPT ![t] =
                                Succeeded([@ EXCEPT !.renamed_files =
                                                        Append(@, entry)])]
       ELSE /\ result' = [result EXCEPT ![t] = Succeeded(@)]
            /\ oslog' = [oslog EXCEPT ![t] =
                           Append(@, Attempt(loc[t].subtitle_path,
                                             loc[t].new_subtitle_path, FALSE))]
            /\ UNCHANGED fs
    /\ pc' = [pc EXCEPT ![t] = "return"]
    /\ UNCHANGED <<library_path, arg, loc, fs0, out>>

\* Line 203: the result goes to the caller.
rename_return(t) ==
    /\ pc[t] = "return"
    /\ pc' = [pc EXCEPT ![t] = "idle"]
    /\ arg' = [arg EXCEPT ![t] = NoArg]
    /\ loc' = [loc EXCEPT ![t] = NoLoc]
    /\ result' = [result EXCEPT ![t] = NoResult]
    /\ fs0' = [fs0 EXCEPT ![t] = NoFiles]
    /\ oslog' = [oslog EXCEPT ![t] = <<>>]
    /\ UNCHANGED <<fs, library_path, out>>

\* No rename_file call is in progress and no returned value is waiting for
\* its caller.
AllIdle == out = [op |-> "none"] /\ \A t \in Callers : pc[t] = "idle"

\* ------------------------------------------------------------ catalog scan
\* The record _get_all_files and get_file_info build for the file at
\* file_path (lines 35-54, 210-224).
FileRecord(files, lib, file_path) ==
    LET filename == basename(file_path)
        file_ext == Lower(splitext(filename)[2])
        relative_path == relpath(file_path, lib)
    IN  [filename |-> filename,
         full_path |-> file_path,
         relative_path |-> relative_path,
         directory |-> dirname(relative_path),
         extension |-> file_ext,
         size |-> files[file_path].size,
         modified |-> files[file_path].modified,
         is_video |-> file_ext \in video_extensions,
         is_subtitle |-> file_ext \in subtitle_extensions]

\* The orders in which os.walk can meet the files below lib: any order of
\* the directory entries, a directory's own files before those of its
\* subdirectories.
WalkOrders(files, lib) ==
    LET below == { p \in DOMAIN files : StartsWith(p, lib \o <<Sep>>) }
        n == Cardinality(below)
    IN  { w \in [1..n -> below] :
            /\ \A i, j \in 1..n : i # j => w[i] # w[j]
            /\ \A i, j \in 1..n :
                 i < j => ~StartsWith(dirname(w[i]), dirname(w[j]) \o <<Sep>>) }

\* _get_all_files: nothing when the library path does not exist; else the
\* records of the supported files in walk order, up to the file at which an
\* I/O error ends the walk (visited = Len(walk): no error).
_get_all_files(files, lib, walk, visited) ==
    IF ~exists(files, lib) THEN <<>>
    ELSE LET seen == SubSeq(walk, 1, visited) IN
         [i \in 1..Len(SelectSeq(seen,
                 LAMBDA p : Lower(splitext(basename(p))[2]) \in supported_extensions))
            |-> FileRecord(files, lib,
                  SelectSeq(seen,
                    LAMBDA p : Lower(splitext(basename(p))[2])
                                 \in supported_extensions)[i])]

\* ---------------------------------------------------------- paginated query
\* The sort key of line 87, 89 or 91 puts x strictly before y.
KeyLess(x, y, sort_by) ==
    IF sort_by = "filename" THEN StrLess(Lower(x.filename), Lower(y.filename))
    ELSE IF sort_by = "size" THEN x.size < y.size
    ELSE x.modified < y.modified

\* x is placed after every element it does not strictly precede: the sort is
\* stable, and with reverse=True equal keys keep their original order too.
RECURSIVE Insert(_, _, _, _)
Insert(sorted, x, sort_by, reverse) ==
    IF sorted = <<>> THEN <<x>>
    ELSE IF (IF reverse THEN KeyLess(Head(sorted), x, sort_by)
                        ELSE KeyLess(x, Head(sorted), sort_by))
    THEN <<x>> \o sorted
    ELSE <<Head(sorted)>> \o Insert(Tail(sorted), x, sort_by, reverse)

\* list.sort(key=..., reverse=...)
RECURSIVE SortFrom(_, _, _, _)
SortFrom(sorted, rest, sort_by, reverse) ==
    IF rest = <<>> THEN sorted
    ELSE SortFrom(Insert(sorted, Head(rest), sort_by, reverse), Tail(rest),
                  sort_by, reverse)

\* Mutant of Sort: the order argument is ignored.
Sort_ascending(files, sort_by, sort_order) == SortFrom(<<>>, files, sort_by, FALSE)

Sort(files, sort_by, sort_order) == SortFrom(<<>>, files, sort_by, sort_order = "desc")

\* Lines 79-82: the records whose filename or relative path contains the
\* search term, case-insensitively; an empty or absent term keeps all.
Filter(files, search) ==
    IF search = <<>> THEN files
    ELSE SelectSeq(files,
           LAMBDA f : \/ Contains(Lower(f.filename), Lower(search))
                      \/ Contains(Lower(f.relative_path), Lower(search)))

\* Mutant of Ceil: the quotient is rounded down.
Ceil_floor(a, b) ==
    IF b > 0 THEN a \div b ELSE -((a + (-b) - 1) \div (-b))

\* math.ceil(a / b) for b # 0.
Ceil(a, b) ==
    IF b > 0 THEN -((-a) \div b) ELSE -(a \div (-b))

Max(a, b) == IF a > b THEN a ELSE b
Min(a, b) == IF a < b THEN a ELSE b

\* Mutant of Slice: the element at index end is part of the slice.
Slice_end_included(list, start, end) ==
    LET n == Len(list)
        b == IF start < 0 THEN Max(n + start, 0) ELSE Min(start, n)
        e == IF end < 0 THEN Max(n + end + 1, 0) ELSE Min(end + 1, n)
    IN  IF b >= e THEN <<>> ELSE SubSeq(list, b + 1, e)

\* list[start:end]: 0-based, end excluded; a negative index counts from the
\* end of the list, and indexes beyond the list are cut to it.
Slice(list, start, end) ==
    LET n == Len(list)
        b == IF start < 0 THEN Max(n + start, 0) ELSE Min(start, n)
        e == IF end < 0 THEN Max(n + end, 0) ELSE Min(end, n)
    IN  IF b >= e THEN <<>> ELSE SubSeq(list, b + 1, e)

RECURSIVE SumSize(_)
SumSize(files) ==
    IF files = <<>> THEN 0 ELSE Head(files).size + SumSize(Tail(files))

\* Mutant of ClampPage: the page is only kept from falling below 1.
ClampPage_lower_only(page, total_pages) == Max(1, page)

\* The page number after line 96.
ClampPage(page, total_pages) == Max(1, Min(page, total_pages))

\* Mutant of StatsOver: the stats are computed over the page's slice.
StatsOver_page(all_files, page_files) == page_files

\* The files the stats of lines 112-117 are computed over.
StatsOver(all_files, page_files) == all_files

\* get_files_paginated on the scanned catalog (lines 78-118): the returned
\* dictionary, or the exception that leaves the call.
get_files_paginated(catalog, page, per_page, search, sort_by, sort_order) ==
    LET all_files == Sort(Filter(catalog, search), sort_by, sort_order)
        total_files == Len(all_files)
    IN  IF total_files > 0 /\ per_page = 0
        THEN [raised |-> "ZeroDivisionError"]
        ELSE LET total_pages == IF total_files > 0
                                THEN Ceil(total_files, per_page) ELSE 1
                 clamped == ClampPage(page, total_pages)
                 start_idx == (clamped - 1) * per_page
                 end_idx == start_idx + per_page
                 page_files == Slice(all_files, start_idx, end_idx)
                 counted == StatsOver(all_files, page_files)
             IN  [raised |-> "",
                  files |-> page_files,
                  pagination |->
                    [current_page |-> clamped,
                     per_page |-> per_page,
                     total_files |-> total_files,
                     total_pages |-> total_pages,
                     has_previous |-> clamped > 1,
                     has_next |-> clamped < total_pages],
                  stats |->
                    [total_files |-> total_files,
                     video_files |-> Len(SelectSeq(counted, LAMBDA f : f.is_video)),
                     subtitle_files |->
                         Len(SelectSeq(counted, LAMBDA f : f.is_subtitle)),
                     total_size |-> SumSize(counted)]]

Pages == 0..MaxPage
PerPages == -1..MaxPerPage
\* Search terms: none, one that matches a file name only without regard to
\* case, one that matches two file names, one that matches a relative path
\* and no file name.
Searches == { <<>>, <<"M", "K">>, <<"S">>, <<"s", "/">> }
SortFields == {"filename", "size", "modified"}
SortOrders == {"asc", "desc"}

\* One call of get_files_paginated: a fresh scan, then the query on it.
Query(page, per_page, search, sort_by, sort_order, walk, visited) ==
    /\ AllIdle
    /\ LET catalog == _get_all_files(fs, library_path, walk, visited) IN
       out' = [op |-> "query", page |-> page, per_page |-> per_page,
               search |-> search, sort_by |-> sort_by, sort_order |-> sort_order,
               catalog |-> catalog,
               ret |-> get_files_paginated(catalog, page, per_page, search,
                                           sort_by, sort_order)]
    /\ UNCHANGED <<fs, library_path, pc, arg, loc, result, fs0, oslog>>

\* ---------------------------------------------------------------- file info
\* get_file_info (lines 207-232): None for a missing path; the exception of
\* a stat call that fails leaves the call; else the record, with the
\* companion subtitle of a video.
get_file_info(files, lib, order, file_path, stat_fails) ==
    IF ~exists(files, file_path) THEN [raised |-> "", is_none |-> TRUE]
    ELSE IF stat_fails THEN [raised |-> "OSError"]
    ELSE LET info == FileRecord(files, lib, file_path)
             subtitle_path == find_related_subtitle(files, order, file_path)
         IN  IF info.is_video
             THEN [raised |-> "", is_none |-> FALSE, info |-> info,
                   has_subtitle |-> subtitle_path # <<>>,
                   subtitle_path |-> subtitle_path]
             ELSE [raised |-> "", is_none |-> FALSE, info |-> info]

FileInfo(file_path, order, stat_fails) ==
    /\ AllIdle
    /\ out' = [op |-> "info", file_path |-> file_path,
               ret |-> get_file_info(fs, library_path, order, file_path,
                                     stat_fails)]
    /\ UNCHANGED <<fs, library_path, pc, arg, loc, result, fs0, oslog>>

\* update_library_path (lines 19-22)
update_library_path(new_path) ==
    /\ AllIdle
    /\ library_path # new_path
    /\ library_path' = new_path
    /\ UNCHANGED <<fs, pc, arg, loc, result, fs0, oslog, out>>

\* The caller takes the value a query or file-info call returned.
take_result ==
    /\ out # NoOut
    /\ out' = NoOut
    /\ UNCHANGED <<fs, library_path, pc, arg, loc, result, fs0, oslog>>

\* ----------------------------------------------------------- specification
\* The caller of the sequential specification: one call at a time.
Caller == CHOOSE t \in Callers : \A u \in Callers : t <= u

\* get_files_paginated's default arguments (lines 61-62).
DefaultPage == 1
DefaultPerPage == 50
DefaultSortBy == "modified"
DefaultSortOrder == "desc"

\* Every operation of the browser, one call at a time; the query is called
\* with its default arguments.
Next ==
    \/ /\ AllIdle
       /\ \E old_path \in OldPaths, new_name \in NewNames, rename_sub \in BOOLEAN :
             rename_call(Caller, old_path, new_name, rename_sub)
    \/ rename_check_old(Caller)
    \/ rename_check_new(Caller)
    \/ \E refused \in BOOLEAN : rename_main(Caller, refused)
    \/ \E order \in SubtitleOrders : rename_find_subtitle(Caller, order)
    \/ \E refused \in BOOLEAN : rename_subtitle(Caller, refused)
    \/ rename_return(Caller)
    \/ /\ AllIdle
       /\ \E walk \in WalkOrders(fs, library_path) :
             \E visited \in 0..Len(walk) :
                Query(DefaultPage, DefaultPerPage, <<>>, DefaultSortBy,
                      DefaultSortOrder, walk, visited)
    \/ /\ AllIdle
       /\ \E file_path \in OldPaths, order \in SubtitleOrders,
             stat_fails \in BOOLEAN :
             FileInfo(file_path, order, stat_fails)
    \/ \E new_path \in {LibraryRoot, MissingRoot} : update_library_path(new_path)
    \/ take_result

Spec == Init /\ [][Next]_vars

\* The read-only operations over libraries of files of every size, the query
\* with every argument.
QueryPaths ==
    { join(LibraryRoot, <<"b", ".", "M", "K", "V">>),
      join(LibraryRoot, <<"a", ".", "s", "r", "t">>),
      join(LibraryRoot, <<"a", ".", "t", "x", "t">>),
      join(SubDir, <<"a", ".", "s", "r", "t">>) }

InitQuery ==
    /\ fs \in Libraries(QueryPaths, MaxSize, MaxMtime)
    /\ library_path = LibraryRoot
    /\ pc = [t \in Callers |-> "idle"]
    /\ arg = [t \in Callers |-> NoArg]
    /\ loc = [t \in Callers |-> NoLoc]
    /\ result = [t \in Callers |-> NoResult]
    /\ fs0 = [t \in Callers |-> NoFiles]
    /\ oslog = [t \in Callers |-> <<>>]
    /\ out = NoOut

NextQuery ==
    \/ /\ AllIdle
       /\ \E page \in Pages, per_page \in PerPages, search \in Searches,
             sort_by \in SortFields, sort_order \in SortOrders,
             walk \in WalkOrders(fs, library_path) :
             \E visited \in 0..Len(walk) :
                Query(page, per_page, search, sort_by, sort_order, walk, visited)
    \/ /\ AllIdle
       /\ \E file_path \in OldPaths, order \in SubtitleOrders,
             stat_fails \in BOOLEAN :
             FileInfo(file_path, order, stat_fails)
    \/ \E new_path \in {LibraryRoot, MissingRoot} : update_library_path(new_path)
    \/ take_result

SpecQuery == InitQuery /\ [][NextQuery]_vars

\* Two callers inside rename_file at the same time: nothing coordinates
\* them, so that their steps interleave in every order, each step atomic as
\* the system call it makes.
RacePaths ==
    { join(LibraryRoot, <<"a", ".", "m", "p", "4">>),
      join(LibraryRoot, <<"a", ".", "s", "r", "t">>),
      join(LibraryRoot, <<"b", ".", "m", "p", "4">>),
      join(LibraryRoot, <<"b", ".", "s", "r", "t">>) }

InitRace ==
    /\ fs \in Libraries(RacePaths, 0, 0)
    /\ library_path = LibraryRoot
    /\ pc = [t \in Callers |-> "idle"]
    /\ arg = [t \in Callers |-> NoArg]
    /\ loc = [t \in Callers |-> NoLoc]
    /\ result = [t \in Callers |-> NoResult]
    /\ fs0 = [t \in Callers |-> NoFiles]
    /\ oslog = [t \in Callers |-> <<>>]
    /\ out = NoOut

\* The calls that are in progress are calls on one source path: a caller
\* enters rename_file on the path the other caller is working on.
RacingOn(t, old_path) ==
    \A u \in Callers \ {t} : pc[u] # "idle" => arg[u].old_path = old_path

NextRace ==
    \E t \in Callers :
        \/ \E old_path \in OldPaths, new_name \in NewNames, rename_sub \in BOOLEAN :
              /\ RacingOn(t, old_path)
              /\ rename_call(t, old_path, new_name, rename_sub)
        \/ rename_check_old(t)
        \/ rename_check_new(t)
        \/ \E refused \in BOOLEAN : rename_main(t, refused)
        \/ \E order \in SubtitleOrders : rename_find_subtitle(t, order)
        \/ \E refused \in BOOLEAN : rename_subtitle(t, refused)
        \/ rename_return(t)

SpecRace == InitRace /\ [][NextRace]_vars

\* ================================================================== claims
\* The caller t's rename_file call has finished and its result is about to
\* be returned.
Returning(t) == pc[t] = "return"

\* The destination of caller t's call as the contract states it: the old
\* directory, the stem of the new name, the old extension.
Destination(t) ==
    join(dirname(arg[t].old_path),
         splitext(arg[t].new_name)[1] \o splitext(basename(arg[t].old_path))[2])

\* When caller t's call began, its source was missing.
SourceMissing(t) == arg[t].old_path \notin DOMAIN fs0[t]

\* When caller t's call began, a different file was at its destination.
DestinationTaken(t) ==
    /\ arg[t].old_path \in DOMAIN fs0[t]
    /\ Destination(t) \in DOMAIN fs0[t]
    /\ Destination(t) # arg[t].old_path

\* C1: a rename whose source is missing, or whose destination is taken by a
\* different file, returns success = false and no renamed files, and the
\* files are exactly those of before the call.
C1_FailedPreconditionChangesNothing ==
    \A t \in Callers :
        Returning(t) /\ (SourceMissing(t) \/ DestinationTaken(t)) =>
            /\ result[t].success = FALSE
            /\ result[t].renamed_files = <<>>
            /\ fs = fs0[t]

C1_Witness ==
    /\ Returning(Caller)
    /\ DestinationTaken(Caller)
    /\ result[Caller].message[1] = "Destination file already exists"

\* The subtitles that accompany the video of caller t's call when it began:
\* same directory, same stem, a subtitle extension.
Companions(t) ==
    { join(dirname(arg[t].old_path),
           splitext(basename(arg[t].old_path))[1] \o ext) :
        ext \in subtitle_extensions } \cap DOMAIN fs0[t]

\* Caller t renames a video that has a companion subtitle, with
\* rename_subtitle, its precondition holds and no os.rename call raises.
PairedRename(t) ==
    /\ arg[t].old_path \in DOMAIN fs0[t]
    /\ ~DestinationTaken(t)
    /\ Lower(splitext(basename(arg[t].old_path))[2]) \in video_extensions
    /\ arg[t].rename_subtitle
    /\ Companions(t) # {}
    /\ \A i \in 1..Len(oslog[t]) : oslog[t][i].ok

\* The two entries of a paired rename: main, then subtitle, each at the new
\* stem with its own extension.
PairedEntries(t) ==
    LET files == result[t].renamed_files
        new_stem == splitext(arg[t].new_name)[1]
        dir == dirname(arg[t].old_path)
    IN  /\ Len(files) = 2
        /\ files[1].type = "main"
        /\ files[1].old = arg[t].old_path
        /\ files[1].new = join(dir, new_stem \o splitext(arg[t].old_path)[2])
        /\ files[2].type = "subtitle"
        /\ files[2].old \in Companions(t)
        /\ files[2].new = join(dir, new_stem \o splitext(files[2].old)[2])
        /\ files[1].new \in DOMAIN fs
        /\ files[2].new \in DOMAIN fs
        /\ fs[files[1].new].ino = fs0[t][files[1].old].ino
        /\ fs[files[2].new].ino = fs0[t][files[2].old].ino

\* The new name of caller t's call has the stem the file already has.
SameStem(t) ==
    splitext(arg[t].new_name)[1] = splitext(basename(arg[t].old_path))[1]

\* C2 as claimed: after a paired rename there are exactly two entries, main
\* then subtitle, at the new stem with their own extensions; both old paths
\* are absent and both new paths present.
C2_PairedRenameMovesBoth ==
    \A t \in Callers :
        Returning(t) /\ PairedRename(t) =>
            /\ PairedEntries(t)
            /\ result[t].renamed_files[1].old \notin DOMAIN fs
            /\ result[t].renamed_files[2].old \notin DOMAIN fs

\* C2 as amended: the two entries are as claimed and both new paths hold the
\* moved files; the old paths are absent unless the new name keeps the stem,
\* in which case old and new paths are the same and both files stay.
C2_PairedRenameMovesBothUnlessSameStem ==
    \A t \in Callers :
        Returning(t) /\ PairedRename(t) =>
            /\ PairedEntries(t)
            /\ IF SameStem(t)
               THEN /\ fs = fs0[t]
                    /\ \A i \in 1..2 : result[t].renamed_files[i].old =
                                       result[t].renamed_files[i].new
               ELSE /\ result[t].renamed_files[1].old \notin DOMAIN fs
                    /\ result[t].renamed_files[2].old \notin DOMAIN fs

C2_Witness ==
    /\ Returning(Caller)
    /\ PairedRename(Caller)
    /\ ~SameStem(Caller)
    /\ Len(result[Caller].renamed_files) = 2
    /\ result[Caller].renamed_files[2].old \notin DOMAIN fs

\* The primary os.rename of caller t's call completed.
PrimaryCompleted(t) == Len(oslog[t]) >= 1 /\ oslog[t][1].ok

\* The secondary os.rename of caller t's call was tried and raised.
SecondaryFailed(t) == Len(oslog[t]) = 2 /\ ~oslog[t][2].ok

\* C3: success is true exactly when the primary rename completed; a failed
\* subtitle rename leaves success true and the main file at its new path.
C3_SuccessIffPrimaryCompleted ==
    \A t \in Callers :
        Returning(t) =>
            /\ result[t].success = PrimaryCompleted(t)
            /\ PrimaryCompleted(t) /\ SecondaryFailed(t) =>
                 /\ result[t].success
                 /\ oslog[t][1].dst \in DOMAIN fs
                 /\ fs[oslog[t][1].dst].ino = fs0[t][oslog[t][1].src].ino
                 /\ fs = os_rename(fs0[t], oslog[t][1].src, oslog[t][1].dst)

C3_Witness ==
    /\ Returning(Caller)
    /\ PrimaryCompleted(Caller)
    /\ SecondaryFailed(Caller)
    /\ oslog[Caller][1].src # oslog[Caller][1].dst
    /\ result[Caller].success

\* The files after the renames listed in entries have been applied in order.
RECURSIVE ApplyRenames(_, _)
ApplyRenames(files, entries) ==
    IF entries = <<>> THEN files
    ELSE ApplyRenames(os_rename(files, Head(entries).old, Head(entries).new),
                      Tail(entries))

\* The os.rename calls of caller t's call that completed, as (old, new).
Completed(t) ==
    LET done == SelectSeq(oslog[t], LAMBDA a : a.ok) IN
    [i \in 1..Len(done) |-> <<done[i].src, done[i].dst>>]

\* C4: renamed_files lists exactly the renames that completed during the
\* call, main first and subtitle second, and the files are those of before
\* the call with exactly the listed renames applied.
C4_RenamedFilesAreTheCompletedRenames ==
    \A t \in Callers :
        Returning(t) =>
            LET files == result[t].renamed_files IN
            /\ [i \in 1..Len(files) |-> <<files[i].old, files[i].new>>]
                 = Completed(t)
            /\ Len(files) <= 2
            /\ Len(files) >= 1 => files[1].type = "main"
            /\ Len(files) = 2 => files[2].type = "subtitle"
            /\ ~PrimaryCompleted(t) => files = <<>>
            /\ fs = ApplyRenames(fs0[t], files)

C4_Witness ==
    /\ Returning(Caller)
    /\ SecondaryFailed(Caller)
    /\ Len(result[Caller].renamed_files) = 1
    /\ fs # fs0[Caller]

\* Caller t's call has moved the main file and has not yet looked for the
\* companion subtitle.
LookupPending(t) == pc[t] = "find_subtitle"

\* Caller t's call has looked for the companion subtitle and found one.
LookupDone(t) == pc[t] = "rename_subtitle"

\* What a lookup from the original path finds in the files of before the
\* call, for each iteration order of the extensions.
FoundBefore(t) ==
    { find_related_subtitle(fs0[t], order, arg[t].old_path) :
        order \in SubtitleOrders }

\* C12 as claimed: the subtitle lookup precedes the move of the main file,
\* so that no call is ever past its primary rename with the lookup still to
\* be made.
C12_LookupPrecedesPrimaryRename ==
    \A t \in Callers : PrimaryCompleted(t) => ~LookupPending(t)

\* C12 as amended: the lookup follows the primary rename and is made only
\* when that rename completed, for a video with rename_subtitle; it searches
\* from the original path, and in a call that runs alone it finds a
\* companion of the files of before the call, the one a lookup before the
\* move would have found.
C12_LookupFollowsPrimaryRename ==
    \A t \in Callers :
        /\ LookupPending(t) \/ LookupDone(t) =>
             /\ PrimaryCompleted(t)
             /\ oslog[t][1].src = arg[t].old_path
             /\ arg[t].rename_subtitle
             /\ Lower(splitext(basename(arg[t].old_path))[2]) \in video_extensions
        /\ pc[t] \in {"check_old", "check_new", "rename_main", "find_subtitle"} =>
             loc[t].subtitle_path = <<>>
        /\ LookupDone(t) =>
             /\ loc[t].subtitle_path \in Companions(t)
             /\ loc[t].subtitle_path \in FoundBefore(t)
             /\ loc[t].new_subtitle_path =
                  join(dirname(arg[t].old_path),
                       splitext(arg[t].new_name)[1]
                         \o splitext(loc[t].subtitle_path)[2])

C12_Witness ==
    /\ LookupDone(Caller)
    /\ PrimaryCompleted(Caller)
    /\ arg[Caller].old_path \notin DOMAIN fs
    /\ loc[Caller].subtitle_path \in DOMAIN fs
    /\ Destination(Caller) \in DOMAIN fs
    /\ Cardinality(Companions(Caller)) = 2

\* C5 as claimed: no step of any operation changes the number of files, and
\* no file is replaced at a path where it was.
C5_NoFileCreatedDeletedOrReplaced ==
    [][/\ Cardinality(DOMAIN fs') = Cardinality(DOMAIN fs)
       /\ \A p \in DOMAIN fs \cap DOMAIN fs' : fs'[p].ino = fs[p].ino]_vars

\* ------------------------------------------------------------ query claims
\* A query has returned a dictionary.
Answered == out.op = "query" /\ out.ret.raised = ""

\* The filtered set of the query that has returned, in scan order, and in
\* the order the query asked for.
Filtered == Filter(out.catalog, out.search)
Sorted == Sort(Filtered, out.sort_by, out.sort_order)

\* The n-th page of per_page records of list, by position.
PageOf(list, n, per_page) ==
    [i \in 1..Max(0, Min(per_page, Len(list) - (n - 1) * per_page))
       |-> list[(n - 1) * per_page + i]]

\* C6: for a positive page size the requested page is clamped into
\* 1..total_pages before slicing: a page beyond the last gives the last
\* page's files and number with no next page, a page below 1 gives page 1
\* with no previous page, and the two flags are (page > 1) and
\* (page < total_pages) of the clamped page.
C6_PageIsClamped ==
    Answered /\ out.per_page > 0 =>
        LET pg == out.ret.pagination
            total == pg.total_pages
            at(n) == get_files_paginated(out.catalog, n, out.per_page,
                                         out.search, out.sort_by, out.sort_order)
        IN  /\ pg.current_page \in 1..total
            /\ out.page \in 1..total => pg.current_page = out.page
            /\ out.ret.files = PageOf(Sorted, pg.current_page, out.per_page)
            /\ out.page > total =>
                 /\ pg.current_page = total
                 /\ out.ret.files = at(total).files
                 /\ ~pg.has_next
            /\ out.page < 1 =>
                 /\ pg.current_page = 1
                 /\ out.ret.files = at(1).files
                 /\ ~pg.has_previous
            /\ pg.has_previous = (pg.current_page > 1)
            /\ pg.has_next = (pg.current_page < total)

C6_Witness ==
    /\ Answered
    /\ out.per_page > 0
    /\ out.page > out.ret.pagination.total_pages
    /\ out.ret.pagination.total_pages > 1
    /\ out.ret.files # <<>>

\* C7: for a positive page size, total_pages is the least number of pages
\* of per_page records that hold the filtered set, and at least 1; an empty
\* filtered set gives total_pages = 1 and no files, not an error.
C7_TotalPagesIsCeiling ==
    out.op = "query" /\ out.per_page > 0 =>
        /\ out.ret.raised = ""
        /\ LET total == out.ret.pagination.total_pages
               n == Len(Filtered)
           IN  /\ total >= 1
               /\ n > 0 => (total - 1) * out.per_page < n /\ n <= total * out.per_page
               /\ n = 0 => total = 1 /\ out.ret.files = <<>>

C7_Witness ==
    /\ Answered
    /\ out.per_page > 1
    /\ Len(Filtered) > out.per_page
    /\ out.ret.pagination.total_pages * out.per_page > Len(Filtered)

RECURSIVE SumOfSizes(_)
SumOfSizes(S) ==
    IF S = {} THEN 0
    ELSE LET i == CHOOSE j \in S : TRUE IN
         Filtered[i].size + SumOfSizes(S \ {i})

\* C9: the stats count the whole filtered set, whatever page and page size
\* were asked for: total_files is the size of the filtered set, and every
\* other page and page size gives the same stats.
C9_StatsCoverTheFilteredSet ==
    Answered =>
        /\ out.ret.stats.total_files = Len(Filtered)
        /\ out.ret.stats.video_files =
             Cardinality({i \in DOMAIN Filtered : Filtered[i].is_video})
        /\ out.ret.stats.subtitle_files =
             Cardinality({i \in DOMAIN Filtered : Filtered[i].is_subtitle})
        /\ out.ret.stats.total_size = SumOfSizes(DOMAIN Filtered)
        /\ \A page \in Pages, per_page \in PerPages :
             LET other == get_files_paginated(out.catalog, page, per_page,
                              out.search, out.sort_by, out.sort_order)
             IN  other.raised = "" => other.stats = out.ret.stats

C9_Witness ==
    /\ Answered
    /\ out.ret.files # <<>>
    /\ Len(out.ret.files) < out.ret.stats.total_files
    /\ out.ret.stats.total_size > SumSize(out.ret.files)
    /\ out.search # <<>>

\* list[::-1]
Reverse(list) == [i \in 1..Len(list) |-> list[Len(list) + 1 - i]]

\* No two records of the filtered set have the same size.
DistinctSizes ==
    \A i, j \in DOMAIN Filtered : i # j => Filtered[i].size # Filtered[j].size

\* C10 as claimed: the filtered set sorted on size ascending is the reverse
\* of the same set sorted on size descending.
C10_AscendingIsReversedDescending ==
    Answered /\ out.sort_by = "size" =>
        Sort(Filtered, "size", "asc") = Reverse(Sort(Filtered, "size", "desc"))

\* C10 as amended: the two sequences are each other's reverse when no two
\* records of the filtered set have the same size; records of equal size
\* keep their scan order under both orders, so that in general the sizes,
\* not the records, run in reverse.
C10_ReversedUpToTies ==
    Answered /\ out.sort_by = "size" =>
        LET asc == Sort(Filtered, "size", "asc")
            desc == Sort(Filtered, "size", "desc")
        IN  /\ DistinctSizes => asc = Reverse(desc)
            /\ [i \in DOMAIN asc |-> asc[i].size]
                 = Reverse([i \in DOMAIN desc |-> desc[i].size])
            /\ \A i, j \in DOMAIN Filtered :
                 i < j /\ Filtered[i].size = Filtered[j].size =>
                   /\ \E a, b \in DOMAIN asc :
                        a < b /\ asc[a] = Filtered[i] /\ asc[b] = Filtered[j]
                   /\ \E a, b \in DOMAIN desc :
                        a < b /\ desc[a] = Filtered[i] /\ desc[b] = Filtered[j]

C10_Witness ==
    /\ Answered
    /\ out.sort_by = "size"
    /\ out.sort_order = "desc"
    /\ Len(Filtered) >= 2
    /\ DistinctSizes
    /\ out.ret.files = Sorted
    /\ out.ret.files # Filtered

\* The files lists of pages first..last of the query that has returned, each
\* page asked for with the same catalog and arguments, one after the other.
RECURSIVE PagesFrom(_, _)
PagesFrom(first, last) ==
    IF first > last THEN <<>>
    ELSE get_files_paginated(out.catalog, first, out.per_page, out.search,
                             out.sort_by, out.sort_order).files
           \o PagesFrom(first + 1, last)

\* The number of records of the page n of the query that has returned.
PageLen(n) ==
    Len(get_files_paginated(out.catalog, n, out.per_page, out.search,
                            out.sort_by, out.sort_order).files)

\* C13: for a positive page size the pages 1..total_pages partition the
\* sorted filtered set: their files lists, one after the other, are the
\* sorted filtered sequence with every record exactly once; every page
\* before the last holds per_page records, and the last holds between 1 and
\* per_page records when the filtered set is not empty.
C13_PagesPartitionTheSortedSet ==
    Answered /\ out.per_page > 0 =>
        LET total == out.ret.pagination.total_pages
            all == PagesFrom(1, total)
        IN  /\ all = Sorted
            /\ \A i \in DOMAIN Filtered :
                 Cardinality({k \in DOMAIN all : all[k] = Filtered[i]}) = 1
            /\ \A n \in 1..(total - 1) : PageLen(n) = out.per_page
            /\ Filtered # <<>> => PageLen(total) \in 1..out.per_page
            /\ Filtered = <<>> => total = 1 /\ all = <<>>
            /\ out.ret.files = PagesFrom(out.ret.pagination.current_page,
                                         out.ret.pagination.current_page)

\* A query whose sorted filtered set takes two pages, the last one not full.
C13_Witness ==
    /\ Answered
    /\ out.per_page > 1
    /\ out.ret.pagination.total_pages = 2
    /\ PageLen(1) = out.per_page
    /\ PageLen(2) < out.per_page
    /\ Sorted # Filtered

\* C8 as claimed: every query, file-info and rename call hands a structured
\* result to its caller; no exception leaves the call.
C8_NoExceptionLeavesACall ==
    /\ out.op \in {"query", "info"} => out.ret.raised = ""
    /\ \A t \in Callers :
         Returning(t) => /\ result[t].success \in BOOLEAN
                         /\ result[t].message # <<>>

\* ------------------------------------------------------------- race claims
\* Both callers are at the end of a rename_file call on one source path,
\* which was a file when each of the two calls began.
Racing ==
    /\ \A t \in Callers : Returning(t) /\ arg[t].old_path \in DOMAIN fs0[t]
    /\ \A t, u \in Callers : arg[t].old_path = arg[u].old_path

\* Caller t's call moved its source to a different path.
MovedSource(t) ==
    PrimaryCompleted(t) /\ oslog[t][1].src # oslog[t][1].dst

\* Caller t's call made no os.rename call that completed.
NoMutation(t) == \A i \in 1..Len(oslog[t]) : ~oslog[t][i].ok

\* C11 as claimed: of two concurrent calls on one existing source path at
\* most one reports success, and the call that loses to a successful one
\* ends with the not-found outcome of the existence check, having made no
\* os.rename call.
C11_LoserFailsTheExistenceCheck ==
    Racing =>
        /\ Cardinality({t \in Callers : result[t].success}) <= 1
        /\ \A t, u \in Callers :
             result[u].success /\ ~result[t].success =>
                /\ result[t].message[1] = "File not found"
                /\ oslog[t] = <<>>

\* C11 as amended: at most one of the two calls moves the source; both
\* report success only when one of them renamed the file to the name it
\* had; a call that fails has changed no file, and it failed at the
\* existence check (not found, no os.rename call), at the destination check,
\* or inside os.rename, whose exception the outer handler reports.
C11_AtMostOneMovesTheSource ==
    Racing =>
        /\ Cardinality({t \in Callers : MovedSource(t)}) <= 1
        /\ (\A t \in Callers : result[t].success) =>
             \E t \in Callers : PrimaryCompleted(t) /\ ~MovedSource(t)
        /\ \A t \in Callers :
             ~result[t].success =>
                /\ NoMutation(t)
                /\ result[t].renamed_files = <<>>
                /\ result[t].message[1] \in
                     {"File not found", "Destination file already exists", "Error"}
                /\ result[t].message[1] # "Error" => oslog[t] = <<>>
                /\ result[t].message[1] = "Error" =>
                     Len(oslog[t]) = 1 /\ oslog[t][1].src = arg[t].old_path

\* The two calls began on the same files; one moved the source, the other
\* had passed both checks and its os.rename raised.
C11_Witness ==
    /\ Racing
    /\ \A t, u \in Callers : fs0[t] = fs0[u]
    /\ \E t, u \in Callers :
         /\ result[u].success /\ MovedSource(u)
         /\ ~result[t].success
         /\ result[t].message[1] = "Error"
         /\ oslog[t][1].dst # oslog[u][1].dst

====
